---- MODULE Spec2Model ----
(***************************************************************************)
(* Model of the tabular transforms of the ontheapex dashboard:             *)
(*   gap_evolution_chart.py          HOUR rollover, gap to fastest         *)
(*   race_preprocessing.py           lap-time parsing, position grid       *)
(*   lap_position_chart.py           position grid, car colours            *)
(*   driver_pace_comparison_chart.py percentile averages                   *)
(*   streamlit_app.py                race start date, Overview dispatch    *)
(* Each transform has its own variables and its own specification; a       *)
(* specification leaves the variables of the other transforms idle.        *)
(***************************************************************************)
EXTENDS Integers, Sequences, FiniteSets, TLC

VARIABLES
    roll_df,        \* parse_hour_with_date_and_rollover: the table passed in
    roll_pc,        \* "group" (next car of the groupby), "row", "done"
    roll_groups,    \* car numbers the groupby has still to visit
    car_id,         \* the car of the current group, or None
    roll_rows,      \* row labels of the current car_df still to iterate
    current_date,   \* day number, per car
    last_time,      \* last parsed time of day of the car, or None
    hour_dt,        \* the result Series: row label -> timestamp or NaT
    race_df,        \* preprocess_race: the table passed in
    race_pc,        \* "start", "once" (one pass done), "twice"
    race_out1,      \* preprocess_race(race_df)
    race_out2,      \* preprocess_race(race_out1)
    pre_df,         \* driver pace: the preprocessed table
    pace_pc,        \* "start", "sorted", "done"
    driver,         \* the driver asked for, or "" before the call
    driver_laps,    \* get_sorted_driver_laps(pre_df, driver)
    percentile,     \* the percentile asked for, or None
    avg_time,       \* compute_driver_percentile_average: <<>> is None,
                    \* <<sum, count>> the mean sum/count
    pos_df,         \* show_lap_position_chart: the raw table
    team_colors,    \* the team colour table supplied by the caller
    pos_pc,         \* "start", "select", "no_cars", "coloured", "drawn",
                    \* "warned", "compared"
    preprocessed,   \* preprocess_lap_position_data(df): class -> result
    selected_class, \* the class whose expander is drawn, or ""
    car_colors,     \* car -> colour of the class, after the override loop
    pos_selected_cars, \* the cars picked in the multiselect of the class
    pos_lap_range,  \* <<start_lap, end_lap>> of the slider, or <<>>
    fig_lap,        \* the traces added to the figure: car -> [x, y]
    preprocessed_other, \* what race_preprocessing.preprocess_lap_position_data returned
    gap_df,         \* show_gap_evolution_chart: the table passed in
    gap_pc,         \* "start", "class", "filter", "slider", "done"
    transforms_run, \* the HOUR_DT / ELAPSED_TD / LAP_TIME_SEC columns were computed
    HOUR_DT,        \* the HOUR_DT column: row label -> timestamp or NaT
    gap_class,      \* the class picked in the selectbox, or ""
    selected_cars,  \* the cars picked in the multiselect
    selected_df,    \* row labels of gap_df that survive the filters so far
    lap_range,      \* the slider's value <<first, last>>, or <<>>
    fastest_car,    \* the reference car, or None
    merged,         \* the merged rows, with GAP_TO_FASTEST
    gap_outcome,    \* "", "info", "raised", "chart"
    race_file,      \* streamlit_app: the name of the selected race file
    page,           \* the page picked in the sidebar
    app_pc,         \* "load", "pages", "done"
    app_start_date, \* race_start_date: <<>> is None, else <<year, month, day>>
    invoked,        \* the page functions called so far, in order
    stopped,        \* st.stop() was called
    time_str,       \* time_to_seconds: the value passed in
    time_pc,        \* "start", "done"
    time_sec,       \* what time_to_seconds returned, in thousandths, or None
    heap,           \* the DataFrame objects: object id -> table
    frame_fn,       \* the transform called, or "" before the call
    frame_arg,      \* object id of the table passed to it, or None
    frame_before,   \* the content of that table when the call was made
    frame_result    \* what the call returned: <<"table", id>>, <<"series", values>>,
                    \* <<"dict", value>>, <<"none">> or <<"raised">>

rollVars == <<roll_df, roll_pc, roll_groups, car_id, roll_rows, current_date, last_time, hour_dt>>

raceVars == <<race_df, race_pc, race_out1, race_out2>>

paceVars == <<pre_df, pace_pc, driver, driver_laps, percentile, avg_time>>

posVars == <<pos_df, team_colors, pos_pc, preprocessed, selected_class, car_colors,
             pos_selected_cars, pos_lap_range, fig_lap, preprocessed_other>>

gapVars == <<gap_df, gap_pc, transforms_run, HOUR_DT, gap_class, selected_cars,
             selected_df, lap_range, fastest_car, merged, gap_outcome>>

appVars == <<race_file, page, app_pc, app_start_date, invoked, stopped>>

timeVars == <<time_str, time_pc, time_sec>>

frameVars == <<heap, frame_fn, frame_arg, frame_before, frame_result>>

vars == <<rollVars, raceVars, paceVars, posVars, gapVars, appVars, timeVars, frameVars>>

\* Python's None and pandas' NaT/NaN: a value no number of the model takes
\* (every time, count and timestamp of the model is >= 0).
None == 0 - 1
NaT == None

\* ------------------------------------------------------------------
\* Generic helpers
\* ------------------------------------------------------------------
Range(s) == {s[i] : i \in DOMAIN s}

\* The elements of the finite set S in ascending order of the integer key[x]
\* (key is a function on S, injective).
RECURSIVE SeqByKey(_, _)
SeqByKey(S, key) ==
    IF S = {} THEN <<>>
    ELSE LET m == CHOOSE x \in S : \A y \in S : key[x] <= key[y]
         IN <<m>> \o SeqByKey(S \ {m}, key)

\* Stable insertion of label i into the label sequence s, ordered by the
\* relation le[a][b] ("a sorts no later than b") on labels.
RECURSIVE InsertStable(_, _, _)
InsertStable(s, i, le) ==
    IF s = <<>> THEN <<i>>
    ELSE IF ~le[Head(s)][i] THEN <<i>> \o s
    ELSE <<Head(s)>> \o InsertStable(Tail(s), i, le)

\* Stable sort of the labels 1..n by le: pandas' sort_values on a column,
\* equal keys keeping their input order.
RECURSIVE StableSort(_, _)
StableSort(n, le) ==
    IF n = 0 THEN <<>>
    ELSE InsertStable(StableSort(n - 1, le), n, le)

\* Characters of the texts that are compared or converted, in code-point
\* order from '.' (46) and '0' (48) to ':' (58); any other character is
\* given a code above them.
CodedChars == <<".", "/", "0", "1", "2", "3", "4", "5", "6", "7", "8", "9", ":">>
Code(c) ==
    IF \E i \in DOMAIN CodedChars : CodedChars[i] = c
    THEN 45 + (CHOOSE i \in DOMAIN CodedChars : CodedChars[i] = c)
    ELSE 120
Digits == {CodedChars[i] : i \in 3..12}
DigitVal(c) == Code(c) - 48

\* Python's str comparison: lexicographic by code point.
RECURSIVE StrLess(_, _)
StrLess(a, b) ==
    IF b = <<>> THEN FALSE
    ELSE IF a = <<>> THEN TRUE
    ELSE IF Head(a) # Head(b) THEN Code(Head(a)) < Code(Head(b))
    ELSE StrLess(Tail(a), Tail(b))

\* ------------------------------------------------------------------
\* gap_evolution_chart.py: parse_hour_with_date_and_rollover
\* ------------------------------------------------------------------
\* Bounds of the rollover model.
MaxRollLaps == 3
MaxRollRows == 3

\* Car numbers of the tables.
RollCars == {1, 2}
RollLaps == 1..MaxRollLaps

\* The supplied race start date, as a day number.
race_start_date == 0

MsPerDay == 24 * 60 * 60 * 1000

\* A HOUR text is modelled by the sequence of its ':'/'.'-separated numeric
\* fields: <<h, m, s>> is "hh:mm:ss", <<h, m, s, ms>> is "hh:mm:ss.fff";
\* anything else has neither shape.
HourTexts ==
    { <<23, 59, 50>>, <<0, 0, 5>>, <<0, 0, 5, 500>>, <<24, 0, 0>>, <<7>> }

\* datetime.strptime(val, fmt).time() for the two formats, tried in order;
\* a field out of range raises ValueError, which the loop swallows.
HmsValid(val) == val[1] \in 0..23 /\ val[2] \in 0..59 /\ val[3] \in 0..59

parse_time(val) ==
    IF Len(val) = 4 /\ HmsValid(val) /\ val[4] \in 0..999
    THEN ((val[1] * 60 + val[2]) * 60 + val[3]) * 1000 + val[4]
    ELSE IF Len(val) = 3 /\ HmsValid(val)
    THEN ((val[1] * 60 + val[2]) * 60 + val[3]) * 1000
    ELSE None

\* datetime.combine(current_date, t), in milliseconds since day 0.
combine(date, t) == date * MsPerDay + t

\* Mutant: a repeated time of day counts as a rollover.
RolloverCondLe(t, last) == last # None /\ t <= last

\* The rollover test of the row loop.
RolloverCond(t, last) == last # None /\ t < last

\* Mutant: an unparsable row forgets the last time.
LastAfterUnparsableReset(last) == None

\* What the loop leaves in last_time after an unparsable row.
LastAfterUnparsable(last) == last

\* df.sort_values("LAP_NUMBER"): row labels in ascending lap order.
SortedByLap(df) ==
    StableSort(Len(df), [a \in DOMAIN df |-> [b \in DOMAIN df |->
                            df[a].LAP_NUMBER <= df[b].LAP_NUMBER]])

\* .groupby("NUMBER"): group keys ascending, each group in the sorted order.
GroupKeys(df) ==
    SeqByKey({df[i].NUMBER : i \in DOMAIN df}, [c \in RollCars |-> c])

car_df(df, car) ==
    SelectSeq(SortedByLap(df), LAMBDA i : df[i].NUMBER = car)

\* Input tables: at most MaxRollRows rows, (car, lap) unique, in one of two
\* file orders (car-major ascending, or lap-major descending).
RollSlots == RollCars \X RollLaps

\* The two file orders of a set S of (car, lap) slots.
RollOrders(S) ==
    { SeqByKey(S, [p \in RollSlots |-> p[1] * (MaxRollLaps + 1) + p[2]]),
      SeqByKey(S, [p \in RollSlots |-> 0 - (p[2] * (Cardinality(RollCars) + 1) + p[1])]) }

\* The table with the slots of o in that order, f giving each slot's HOUR.
RollTable(o, f) ==
    [i \in 1..Len(o) |->
        [NUMBER |-> o[i][1], LAP_NUMBER |-> o[i][2], HOUR |-> f[o[i]]]]

RollInit ==
    /\ \E S \in SUBSET RollSlots :
         /\ Cardinality(S) \in 1..MaxRollRows
         /\ \E f \in [S -> HourTexts] : \E o \in RollOrders(S) :
              roll_df = RollTable(o, f)
    /\ roll_pc = "group"
    /\ roll_groups = GroupKeys(roll_df)
    /\ car_id = None
    /\ roll_rows = <<>>
    /\ current_date = race_start_date
    /\ last_time = None
    /\ hour_dt = [i \in DOMAIN roll_df |-> NaT]

\* Mutant: the date and the last time run on from the previous car.
RollNextCarKeepDate ==
    /\ roll_pc = "group"
    /\ roll_groups # <<>>
    /\ car_id' = Head(roll_groups)
    /\ roll_rows' = car_df(roll_df, Head(roll_groups))
    /\ roll_groups' = Tail(roll_groups)
    /\ roll_pc' = "row"
    /\ UNCHANGED <<roll_df, hour_dt, current_date, last_time>>

\* for car_id, car_df in ...: current_date = race_start_date; last_time = None
RollNextCar ==
    /\ roll_pc = "group"
    /\ roll_groups # <<>>
    /\ car_id' = Head(roll_groups)
    /\ roll_rows' = car_df(roll_df, Head(roll_groups))
    /\ roll_groups' = Tail(roll_groups)
    /\ current_date' = race_start_date
    /\ last_time' = None
    /\ roll_pc' = "row"
    /\ UNCHANGED <<roll_df, hour_dt>>

\* One iteration of "for idx, row in car_df.iterrows()".
RollRow ==
    /\ roll_pc = "row"
    /\ roll_rows # <<>>
    /\ LET idx == Head(roll_rows)
           t == parse_time(roll_df[idx].HOUR)
       IN IF t = None
          THEN /\ hour_dt' = [hour_dt EXCEPT ![idx] = NaT]
               /\ last_time' = LastAfterUnparsable(last_time)
               /\ UNCHANGED current_date
          ELSE LET d == IF RolloverCond(t, last_time)
                        THEN current_date + 1 ELSE current_date
               IN /\ current_date' = d
                  /\ last_time' = t
                  /\ hour_dt' = [hour_dt EXCEPT ![idx] = combine(d, t)]
    /\ roll_rows' = Tail(roll_rows)
    /\ UNCHANGED <<roll_df, roll_groups, car_id, roll_pc>>

\* The row loop of a car is exhausted: back to the groupby loop.
RollEndCar ==
    /\ roll_pc = "row"
    /\ roll_rows = <<>>
    /\ roll_pc' = "group"
    /\ UNCHANGED <<roll_df, roll_groups, car_id, roll_rows, current_date, last_time, hour_dt>>

\* return hour_dt
RollReturn ==
    /\ roll_pc = "group"
    /\ roll_groups = <<>>
    /\ roll_pc' = "done"
    /\ UNCHANGED <<roll_df, roll_groups, car_id, roll_rows, current_date, last_time, hour_dt>>

\* The rollover variables when another transform is the one running.
RollIdle ==
    /\ roll_df = <<>> /\ roll_pc = "idle" /\ roll_groups = <<>> /\ car_id = None
    /\ roll_rows = <<>> /\ current_date = race_start_date /\ last_time = None
    /\ hour_dt = <<>>

\* ------------------------------------------------------------------
\* race_preprocessing.py: preprocess_race
\* ------------------------------------------------------------------
\* Bounds of the lap-time model: length of the free LAP_TIME text, rows.
MaxLapLen == 5
MaxRaceRows == 2

\* A text is the sequence of its characters.
LapChars == {"1", "2", ":", ".", "x"}

\* A missing LAP_TIME is a float NaN, which is no text: x.split raises.
NotAString == <<"NaN">>

\* Texts every further row of a table draws its LAP_TIME from:
\* "1:2", "1:2:1" and "x".
SampleLapTimes == { <<"1", ":", "2">>, <<"1", ":", "2", ":", "1">>, <<"x">> }

\* str.split(sep): the pieces between the separators (always at least one).
RECURSIVE Split(_, _)
Split(x, sep) ==
    IF \A i \in DOMAIN x : x[i] # sep THEN <<x>>
    ELSE LET k == CHOOSE i \in DOMAIN x :
                    x[i] = sep /\ \A j \in 1..(i - 1) : x[j] # sep
         IN <<SubSeq(x, 1, k - 1)>> \o Split(SubSeq(x, k + 1, Len(x)), sep)

AllDigits(p) == \A i \in DOMAIN p : p[i] \in Digits

\* Value of a digit string (0 for the empty string).
RECURSIVE DecVal(_)
DecVal(p) ==
    IF p = <<>> THEN 0
    ELSE DecVal(SubSeq(p, 1, Len(p) - 1)) * 10 + DigitVal(p[Len(p)])

RECURSIVE Pow10(_)
Pow10(n) == IF n = 0 THEN 1 ELSE 10 * Pow10(n - 1)

\* int(p) succeeds: a non-empty digit string.
IntOk(p) == p # <<>> /\ AllDigits(p)

\* float(p) succeeds: digits with at most one '.', at least one digit.
FloatOk(p) ==
    LET q == Split(p, ".")
    IN /\ Len(q) \in {1, 2}
       /\ \A i \in DOMAIN q : AllDigits(q[i])
       /\ \E i \in DOMAIN q : q[i] # <<>>

\* float(p) in thousandths of a second (at most three decimals occur).
FloatMilli(p) ==
    LET q == Split(p, ".")
    IN DecVal(q[1]) * 1000
         + (IF Len(q) = 2 THEN (DecVal(q[2]) * 1000) \div Pow10(Len(q[2])) ELSE 0)

\* lap_to_seconds(x), in thousandths: "mins, secs = x.split(':')" raises
\* unless there are exactly two parts (and x is a string), int() and float()
\* raise on a malformed part, and every exception returns None.
lap_to_seconds(x) ==
    IF x = NotAString THEN None
    ELSE LET parts == Split(x, ":")
         IN IF Len(parts) = 2 /\ IntOk(parts[1]) /\ FloatOk(parts[2])
            THEN DecVal(parts[1]) * 60 * 1000 + FloatMilli(parts[2])
            ELSE None

\* A table: its column names and its rows; a row keeps its index label.
\* LAP_TIME_SECONDS is None in a table without that column.
RaceRow(label, text) == [idx |-> label, LAP_TIME |-> text, LAP_TIME_SECONDS |-> None]

\* No table yet.
NoTable == [cols |-> {}, rows |-> <<>>]

\* Mutant: the converted value overwrites LAP_TIME, which then is no text.
preprocess_raceInPlace(df) ==
    LET conv == [i \in DOMAIN df.rows |->
                    [df.rows[i] EXCEPT !.LAP_TIME_SECONDS = lap_to_seconds(df.rows[i].LAP_TIME),
                                       !.LAP_TIME = NotAString]]
    IN [cols |-> df.cols \cup {"LAP_TIME_SECONDS"},
        rows |-> SelectSeq(conv, LAMBDA r : r.LAP_TIME_SECONDS # None)]

\* preprocess_race(df): copy, add LAP_TIME_SECONDS, dropna on it.
preprocess_race(df) ==
    LET conv == [i \in DOMAIN df.rows |->
                    [df.rows[i] EXCEPT !.LAP_TIME_SECONDS = lap_to_seconds(df.rows[i].LAP_TIME)]]
    IN [cols |-> df.cols \cup {"LAP_TIME_SECONDS"},
        rows |-> SelectSeq(conv, LAMBDA r : r.LAP_TIME_SECONDS # None)]

\* All texts over LapChars of length at most n.
RECURSIVE TextsUpTo(_)
TextsUpTo(n) ==
    IF n = 0 THEN {<<>>}
    ELSE LET shorter == TextsUpTo(n - 1)
         IN shorter \cup {Append(t, c) : t \in {u \in shorter : Len(u) = n - 1}, c \in LapChars}

\* Sequences over S of length at most n.
RECURSIVE SeqsUpTo(_, _)
SeqsUpTo(S, n) ==
    IF n = 0 THEN {<<>>}
    ELSE LET shorter == SeqsUpTo(S, n - 1)
         IN shorter \cup {Append(t, c) : t \in {u \in shorter : Len(u) = n - 1}, c \in S}

\* The raw table: a first row with any text (or a missing value) as LAP_TIME,
\* then up to MaxRaceRows - 1 rows with sample texts.
RaceInit ==
    /\ \E first \in TextsUpTo(MaxLapLen) \cup {NotAString} :
         \E rest \in SeqsUpTo(SampleLapTimes, MaxRaceRows - 1) :
           race_df = [cols |-> {"LAP_TIME"},
                      rows |-> [i \in 1..(1 + Len(rest)) |->
                                  RaceRow(i, IF i = 1 THEN first ELSE rest[i - 1])]]
    /\ race_pc = "start"
    /\ race_out1 = NoTable
    /\ race_out2 = NoTable

\* df_pre = preprocess_race(df)
RaceFirstPass ==
    /\ race_pc = "start"
    /\ race_out1' = preprocess_race(race_df)
    /\ race_pc' = "once"
    /\ UNCHANGED <<race_df, race_out2>>

\* preprocess_race applied to its own output.
RaceSecondPass ==
    /\ race_pc = "once"
    /\ race_out2' = preprocess_race(race_out1)
    /\ race_pc' = "twice"
    /\ UNCHANGED <<race_df, race_out1>>

RaceIdle ==
    /\ race_df = NoTable /\ race_pc = "idle" /\ race_out1 = NoTable /\ race_out2 = NoTable

\* ------------------------------------------------------------------
\* driver_pace_comparison_chart.py: percentile averages
\* ------------------------------------------------------------------
\* Bound of the pace model: rows of the preprocessed table.
MaxPaceRows == 5

\* Rows of the table: driver "A" with a lap time of 90..94 s, or driver "B"
\* with a lap time of 80 s or 95 s.
PaceRows ==
    [DRIVER_NAME : {"A"}, LAP_TIME_SECONDS : 90..94]
      \cup [DRIVER_NAME : {"B"}, LAP_TIME_SECONDS : {80, 95}]

Drivers == {"A", "B", "C"}

\* Percentiles asked for: the chart's options and the ends of 1..100.
Percentiles == {1, 20, 40, 60, 80, 99, 100}

Max(a, b) == IF a >= b THEN a ELSE b

RECURSIVE SumSeq(_)
SumSeq(q) == IF q = <<>> THEN 0 ELSE Head(q) + SumSeq(Tail(q))

\* Mutant: the driver's rows in the order of the table.
get_sorted_driver_lapsUnsorted(df, d) == SelectSeq(df, LAMBDA r : r.DRIVER_NAME = d)

\* get_sorted_driver_laps: the driver's rows, ascending by LAP_TIME_SECONDS,
\* index reset.
get_sorted_driver_laps(df, d) ==
    LET mine == SelectSeq(df, LAMBDA r : r.DRIVER_NAME = d)
        order == StableSort(Len(mine),
                   [a \in DOMAIN mine |-> [b \in DOMAIN mine |->
                       mine[a].LAP_TIME_SECONDS <= mine[b].LAP_TIME_SECONDS]])
    IN [i \in DOMAIN mine |-> mine[order[i]]]

\* Mutant: the kept count is rounded up.
NKeepCeil(n_laps, pct) == Max(1, (n_laps * pct + 99) \div 100)

\* n_keep = max(1, int(n_laps * percentile / 100))
NKeep(n_laps, pct) == Max(1, (n_laps * pct) \div 100)

\* compute_driver_percentile_average: None for no laps, else the mean of
\* head(n_keep), kept as <<sum, count>>.
compute_driver_percentile_average(laps, pct) ==
    LET n_laps == Len(laps)
    IN IF n_laps = 0 THEN <<>>
       ELSE LET head == SubSeq(laps, 1, NKeep(n_laps, pct))
            IN << SumSeq([i \in DOMAIN head |-> head[i].LAP_TIME_SECONDS]), Len(head) >>

PaceInit ==
    /\ pre_df \in SeqsUpTo(PaceRows, MaxPaceRows)
    /\ pace_pc = "start"
    /\ driver = ""
    /\ driver_laps = <<>>
    /\ percentile = None
    /\ avg_time = <<>>

\* Bound of the tables the averages are compared on over all percentiles.
MaxMonotoneRows == 6

\* Those tables: up to MaxMonotoneRows laps of driver "A", each of 90, 92
\* or 95 s, in any order.
PaceMonotoneInit ==
    /\ pre_df \in SeqsUpTo([DRIVER_NAME : {"A"}, LAP_TIME_SECONDS : {90, 92, 95}],
                           MaxMonotoneRows)
    /\ pace_pc = "start"
    /\ driver = ""
    /\ driver_laps = <<>>
    /\ percentile = None
    /\ avg_time = <<>>

\* driver_laps = get_sorted_driver_laps(pre_df, driver)
PaceSort ==
    /\ pace_pc = "start"
    /\ \E d \in Drivers :
         /\ driver' = d
         /\ driver_laps' = get_sorted_driver_laps(pre_df, d)
    /\ pace_pc' = "sorted"
    /\ UNCHANGED <<pre_df, percentile, avg_time>>

\* avg_time = compute_driver_percentile_average(driver_laps, p)
PaceAverage ==
    /\ pace_pc = "sorted"
    /\ \E p \in Percentiles :
         /\ percentile' = p
         /\ avg_time' = compute_driver_percentile_average(driver_laps, p)
    /\ pace_pc' = "done"
    /\ UNCHANGED <<pre_df, driver, driver_laps>>

PaceIdle ==
    /\ pre_df = <<>> /\ pace_pc = "idle" /\ driver = "" /\ driver_laps = <<>>
    /\ percentile = None /\ avg_time = <<>>

\* ------------------------------------------------------------------
\* lap_position_chart.py: preprocess_lap_position_data,
\* show_lap_position_chart
\* ------------------------------------------------------------------
\* Bounds of the position model: highest lap number, rows of the table.
MaxPosLap == 2
MaxPosRows == 4

PosCars == {1, 2, 3}
PosLaps == 0..MaxPosLap

\* ELAPSED texts of the rows: "9:59", "10:01", "9:58".
ElapsedTexts ==
    { <<"9", ":", "5", "9">>, <<"1", "0", ":", "0", "1">>, <<"9", ":", "5", "8">> }

\* Team names (NotAString is a missing TEAM), and the letters str.lower()
\* changes.
UpperLetters == <<"A", "F", "R", "T", "W", "X">>
LowerLetters == <<"a", "f", "r", "t", "w", "x">>
TeamNames == { <<"A", "f">>, <<"a", "f">>, <<"W", "R", "T">>, <<"X">>, NotAString }

\* Team colour tables: one keyed as the application's table is, by display
\* names with capitals ('AF Corse', 'WRT', abbreviated), one keyed in lower
\* case.
TeamColorTables ==
    { (<<"A", "f">> :> "#FCE903") @@ (<<"W", "R", "T">> :> "#2426a8"),
      (<<"a", "f">> :> "#FCE903") @@ (<<"w", "r", "t">> :> "#2426a8") }

NeutralColor == "#888888"
NoColor == "None"

\* str.lower()
LowerChar(c) ==
    IF \E i \in DOMAIN UpperLetters : UpperLetters[i] = c
    THEN LowerLetters[CHOOSE i \in DOMAIN UpperLetters : UpperLetters[i] = c]
    ELSE c
Lower(t) == [i \in DOMAIN t |-> LowerChar(t[i])]

\* dict.get(key, default)
DictGet(d, key, default) == IF key \in DOMAIN d THEN d[key] ELSE default

\* Series.unique(): first occurrences, in order.
RECURSIVE Unique(_)
Unique(q) ==
    IF q = <<>> THEN <<>>
    ELSE LET front == Unique(SubSeq(q, 1, Len(q) - 1))
             last == q[Len(q)]
         IN IF last \in Range(front) THEN front ELSE Append(front, last)

\* The order sort_values("ELAPSED") puts two values in: ELAPSED is a text
\* column, so the values compare as Python strings.
ElapsedLe(a, b) == ~StrLess(b, a)

class_df(df, cls) == SelectSeq(df, LAMBDA r : r.CLASS = cls)

\* class_df["LAP_NUMBER"].max()
MaxLapOf(cdf) ==
    CHOOSE m \in {cdf[i].LAP_NUMBER : i \in DOMAIN cdf} :
        \A i \in DOMAIN cdf : cdf[i].LAP_NUMBER <= m

\* class_df[class_df['LAP_NUMBER'] == lap].sort_values("ELAPSED")
lap_df(cdf, lap) ==
    LET rows == SelectSeq(cdf, LAMBDA r : r.LAP_NUMBER = lap)
        order == StableSort(Len(rows),
                   [a \in DOMAIN rows |-> [b \in DOMAIN rows |->
                       ElapsedLe(rows[a].ELAPSED, rows[b].ELAPSED)]])
    IN [i \in DOMAIN rows |-> rows[order[i]]]

\* lap_positions['Lap <lap>']: a list of nunique(NUMBER) cells, the unique
\* cars of the sorted lap_df first, None after them.
LapColumn(cdf, lap) ==
    LET sorted == lap_df(cdf, lap)
        unique_cars_in_lap == Unique([i \in DOMAIN sorted |-> sorted[i].NUMBER])
        n == Cardinality({cdf[i].NUMBER : i \in DOMAIN cdf})
    IN [pos \in 1..n |->
          IF pos <= Len(unique_cars_in_lap) THEN unique_cars_in_lap[pos] ELSE None]

\* The car_colors placeholder of lap_position_chart.py: every car of a team
\* of the class (TEAM.dropna().unique()) mapped to None.
PlaceholderColors(cdf) ==
    [car \in {cdf[i].NUMBER : i \in {j \in DOMAIN cdf : cdf[j].TEAM # NotAString}} |-> NoColor]

\* preprocess_lap_position_data(df): for every class whose highest lap
\* number is at least 1, (position_df, car_colors, max_lap).
preprocess_lap_position_data(df) ==
    LET classes == {df[i].CLASS : i \in DOMAIN df}
        kept == {cls \in classes : MaxLapOf(class_df(df, cls)) >= 1}
    IN [cls \in kept |->
          LET cdf == class_df(df, cls)
              max_lap == MaxLapOf(cdf)
          IN [position_df |-> [lap \in 1..max_lap |-> LapColumn(cdf, lap)],
              car_colors |-> PlaceholderColors(cdf),
              max_lap |-> max_lap]]

\* available_cars: the cars in the cells of position_df.
AvailableCars(position_df) ==
    {position_df[lap][pos] : lap \in DOMAIN position_df, pos \in 1..Len(position_df[1])}
       \ {None}

\* The colour the override loop gives a car: its first TEAM of the class,
\* lower-cased, looked up in team_colors, else the neutral colour.
TeamColorOf(df, cls, car, colors) ==
    LET mine == SelectSeq(df, LAMBDA r : r.CLASS = cls /\ r.NUMBER = car /\ r.TEAM # NotAString)
        car_team == Unique([i \in DOMAIN mine |-> mine[i].TEAM])
    IN IF Len(car_team) > 0
       THEN DictGet(colors, Lower(car_team[1]), NeutralColor)
       ELSE NeutralColor

\* The loop "for car in available_cars: if car_colors.get(car) is None".
OverrideColors(df, cls, pre, colors) ==
    LET cc == pre[cls].car_colors
        available_cars == AvailableCars(pre[cls].position_df)
    IN [car \in DOMAIN cc \cup available_cars |->
          IF car \in available_cars /\ DictGet(cc, car, NoColor) = NoColor
          THEN TeamColorOf(df, cls, car, colors)
          ELSE cc[car]]

\* The fixed team of a car in the tables that vary laps and ELAPSED.
TeamOfCar(car) == IF car = 3 THEN <<"X">> ELSE <<"A", "f">>

PosRow(cls, car, lap, elapsed, team) ==
    [CLASS |-> cls, NUMBER |-> car, LAP_NUMBER |-> lap, ELAPSED |-> elapsed, TEAM |-> team]

PosSlots == PosCars \X PosLaps

\* Tables varying laps and ELAPSED: at most MaxPosRows rows, (car, lap)
\* unique, cars 1 and 2 in class GT and car 3 in GT or P, rows in car-major
\* order.
PosInitGrid ==
    /\ \E S \in SUBSET PosSlots :
         /\ Cardinality(S) \in 1..MaxPosRows
         /\ \E f \in [S -> ElapsedTexts] : \E cls3 \in {"GT", "P"} :
              LET o == SeqByKey(S, [q \in PosSlots |-> q[1] * (MaxPosLap + 1) + q[2]])
              IN pos_df = [i \in 1..Len(o) |->
                             PosRow(IF o[i][1] = 3 THEN cls3 ELSE "GT",
                                    o[i][1], o[i][2], f[o[i]], TeamOfCar(o[i][1]))]
    /\ team_colors \in TeamColorTables

\* Tables varying the teams: the three cars in class GT, one row each on
\* lap 1.
PosInitTeams ==
    /\ \E team \in [PosCars -> TeamNames] :
         pos_df = [i \in 1..3 |->
                     PosRow("GT", i, 1, <<"9", ":", "5", "9">>, team[i])]
    /\ team_colors \in TeamColorTables

\* Bound of the tables the trajectories and the two preprocessing functions
\* are run on: rows of the table.
MaxGridRows == 3

GridCars == {1, 2}
GridLaps == {0, 1, 2, 3}

\* Those tables: at most MaxGridRows rows, (car, lap) unique, laps 0..3,
\* car 1 in class GT with or without a TEAM, car 2 in class GT or P, ELAPSED
\* "9:59" or "9:58", rows in car-major order; no team colour is supplied.
PosInitSmallGrid ==
    /\ \E S \in SUBSET (GridCars \X GridLaps) :
         /\ Cardinality(S) \in 1..MaxGridRows
         /\ \E f \in [S -> {<<"9", ":", "5", "9">>, <<"9", ":", "5", "8">>}] :
              \E cls2 \in {"GT", "P"} : \E team1 \in {<<"A", "f">>, NotAString} :
                LET o == SeqByKey(S, [q \in GridCars \X GridLaps |->
                                        q[1] * (Cardinality(GridLaps) + 1) + q[2]])
                IN pos_df = [i \in 1..Len(o) |->
                               PosRow(IF o[i][1] = 2 THEN cls2 ELSE "GT",
                                      o[i][1], o[i][2], f[o[i]],
                                      IF o[i][1] = 1 THEN team1 ELSE <<"X">>)]
    /\ team_colors = <<>>

PosSmallGridInit ==
    /\ PosInitSmallGrid
    /\ pos_pc = "start"
    /\ preprocessed = <<>>
    /\ selected_class = ""
    /\ car_colors = <<>>
    /\ pos_selected_cars = {}
    /\ pos_lap_range = <<>>
    /\ fig_lap = <<>>
    /\ preprocessed_other = <<>>

PosInit ==
    /\ PosInitGrid \/ PosInitTeams
    /\ pos_pc = "start"
    /\ preprocessed = <<>>
    /\ selected_class = ""
    /\ car_colors = <<>>
    /\ pos_selected_cars = {}
    /\ pos_lap_range = <<>>
    /\ fig_lap = <<>>
    /\ preprocessed_other = <<>>

\* preprocessed = preprocess_lap_position_data(df); warning and return when
\* it holds no class.
PosPreprocess ==
    /\ pos_pc = "start"
    /\ preprocessed' = preprocess_lap_position_data(pos_df)
    /\ pos_pc' = IF DOMAIN preprocessed' = {} THEN "warned" ELSE "select"
    /\ UNCHANGED <<pos_df, team_colors, selected_class, car_colors, pos_selected_cars,
                   pos_lap_range, fig_lap, preprocessed_other>>

\* for cls in selected_classes: the multiselect (any subset of the cars of
\* the grid; none selected ends the class), the slider (any range within
\* 1..max_lap) and the car_colors override loop.
PosColours ==
    /\ pos_pc = "select"
    /\ \E cls \in DOMAIN preprocessed :
         \E sel \in SUBSET AvailableCars(preprocessed[cls].position_df) :
           /\ selected_class' = cls
           /\ pos_selected_cars' = sel
           /\ IF sel = {}
              THEN /\ pos_pc' = "no_cars"
                   /\ UNCHANGED <<pos_lap_range, car_colors>>
              ELSE /\ \E a \in 1..preprocessed[cls].max_lap :
                        \E b \in a..preprocessed[cls].max_lap : pos_lap_range' = <<a, b>>
                   /\ car_colors' = OverrideColors(pos_df, cls, preprocessed, team_colors)
                   /\ pos_pc' = "coloured"
    /\ UNCHANGED <<pos_df, team_colors, preprocessed, fig_lap, preprocessed_other>>

\* Mutant: the row label is taken from a 0-based index.
PositionOfZeroBased(position_df, lap, car) ==
    LET col == position_df[lap]
    IN IF \E pos \in DOMAIN col : col[pos] = car
       THEN (CHOOSE pos \in DOMAIN col :
               col[pos] = car /\ \A q \in 1..(pos - 1) : col[q] # car) - 1
       ELSE None

\* position_df.index[position_df[col] == car_number][0] when the car is in
\* the column (the index runs from 1), else None.
PositionOf(position_df, lap, car) ==
    LET col == position_df[lap]
    IN IF \E pos \in DOMAIN col : col[pos] = car
       THEN CHOOSE pos \in DOMAIN col :
              col[pos] = car /\ \A q \in 1..(pos - 1) : col[q] # car
       ELSE None

\* The lists laps and positions of one car over range(start_lap, end_lap + 1).
TraceOf(position_df, car, start_lap, end_lap) ==
    [x |-> [k \in 1..(end_lap - start_lap + 1) |-> start_lap + k - 1],
     y |-> [k \in 1..(end_lap - start_lap + 1) |->
              PositionOf(position_df, start_lap + k - 1, car)]]

\* for car_number in selected_cars: a trace for every car with a position on
\* some lap of the range.
PosTrajectories ==
    /\ pos_pc = "coloured"
    /\ LET position_df == preprocessed[selected_class].position_df
           plotted == {car \in pos_selected_cars :
                         \E k \in 1..(pos_lap_range[2] - pos_lap_range[1] + 1) :
                           TraceOf(position_df, car, pos_lap_range[1], pos_lap_range[2]).y[k] # None}
       IN fig_lap' = [car \in plotted |->
                        TraceOf(position_df, car, pos_lap_range[1], pos_lap_range[2])]
    /\ pos_pc' = "drawn"
    /\ UNCHANGED <<pos_df, team_colors, preprocessed, selected_class, car_colors,
                   pos_selected_cars, pos_lap_range, preprocessed_other>>

\* ------------------------------------------------------------------
\* race_preprocessing.py: preprocess_lap_position_data
\* ------------------------------------------------------------------
\* Mutant: a class is kept from a highest lap number of 0 on.
race_preprocessing_preprocess_lap_position_dataFromZero(df) ==
    LET classes == {df[i].CLASS : i \in DOMAIN df}
        kept == {cls \in classes : MaxLapOf(class_df(df, cls)) >= 0}
    IN [cls \in kept |->
          LET cdf == class_df(df, cls)
              max_lap == MaxLapOf(cdf)
          IN [position_df |-> [lap \in 1..max_lap |-> LapColumn(cdf, lap)],
              car_colors |-> <<>>,
              max_lap |-> max_lap]]

\* preprocess_lap_position_data(df) of race_preprocessing.py: the same loop,
\* with car_colors = {}.
race_preprocessing_preprocess_lap_position_data(df) ==
    LET classes == {df[i].CLASS : i \in DOMAIN df}
        kept == {cls \in classes : MaxLapOf(class_df(df, cls)) >= 1}
    IN [cls \in kept |->
          LET cdf == class_df(df, cls)
              max_lap == MaxLapOf(cdf)
          IN [position_df |-> [lap \in 1..max_lap |-> LapColumn(cdf, lap)],
              car_colors |-> <<>>,
              max_lap |-> max_lap]]

\* The function of race_preprocessing.py called on the table the chart's own
\* function was called on.
PosPreprocessOther ==
    /\ pos_pc \in {"select", "warned"}
    /\ preprocessed_other' = race_preprocessing_preprocess_lap_position_data(pos_df)
    /\ pos_pc' = "compared"
    /\ UNCHANGED <<pos_df, team_colors, preprocessed, selected_class, car_colors,
                   pos_selected_cars, pos_lap_range, fig_lap>>

PosIdle ==
    /\ pos_df = <<>> /\ team_colors = <<>> /\ pos_pc = "idle" /\ preprocessed = <<>>
    /\ selected_class = "" /\ car_colors = <<>>
    /\ pos_selected_cars = {} /\ pos_lap_range = <<>> /\ fig_lap = <<>>
    /\ preprocessed_other = <<>>

\* ------------------------------------------------------------------
\* gap_evolution_chart.py: show_gap_evolution_chart
\* ------------------------------------------------------------------
\* Bounds of the gap model: highest lap number, rows of the table.
MaxGapLap == 3
MaxGapRows == 3

GapLaps == 1..MaxGapLap

\* HOUR texts of the gap tables: 23:59:50, 00:00:05, 12:00:00, and one that
\* does not parse.
GapHourTexts == { <<23, 59, 50>>, <<0, 0, 5>>, <<12, 0, 0>>, <<7>> }

\* The row loop of parse_hour_with_date_and_rollover over the rows of one
\* car, as a function: the Series acc with the car's timestamps filled in.
RECURSIVE ScanRows(_, _, _, _, _)
ScanRows(df, rows, date, last, acc) ==
    IF rows = <<>> THEN acc
    ELSE LET idx == Head(rows)
             t == parse_time(df[idx].HOUR)
         IN IF t = None
            THEN ScanRows(df, Tail(rows), date, LastAfterUnparsable(last),
                          [acc EXCEPT ![idx] = NaT])
            ELSE LET d == IF RolloverCond(t, last) THEN date + 1 ELSE date
                 IN ScanRows(df, Tail(rows), d, t, [acc EXCEPT ![idx] = combine(d, t)])

RECURSIVE ScanCars(_, _, _)
ScanCars(df, groups, acc) ==
    IF groups = <<>> THEN acc
    ELSE ScanCars(df, Tail(groups),
                  ScanRows(df, car_df(df, Head(groups)), race_start_date, None, acc))

\* parse_hour_with_date_and_rollover(df, race_start_date)
parse_hour_with_date_and_rollover(df) ==
    ScanCars(df, GroupKeys(df), [i \in DOMAIN df |-> NaT])

\* Ascending list of a set of lap numbers or car numbers.
SortedSeq(S) == SeqByKey(S, [x \in S |-> x])

\* CUM_TIME_SEC of a row, in milliseconds.
CumTime(i) == HOUR_DT[i] - race_start_date * MsPerDay

\* final_times = groupby('NUMBER')['CUM_TIME_SEC'].max(), for one car.
FinalTime(rows, car) ==
    LET own == {CumTime(i) : i \in {j \in rows : gap_df[j].NUMBER = car}}
    IN CHOOSE m \in own : \A x \in own : x <= m

\* final_times.idxmin(): the first car, in ascending car order, with the
\* smallest final time.
IdxMin(rows) ==
    LET cars == {gap_df[i].NUMBER : i \in rows}
    IN CHOOSE c \in cars :
         /\ \A x \in cars : FinalTime(rows, c) <= FinalTime(rows, x)
         /\ \A x \in cars : FinalTime(rows, x) = FinalTime(rows, c) => c <= x

\* Mutant: every row is matched with the reference car's rows of any lap.
RefMatchesAnyLap(i, j) == TRUE

\* The join condition of merge(ref_df, on='LAP_NUMBER').
RefMatches(i, j) == gap_df[i].LAP_NUMBER = gap_df[j].LAP_NUMBER

\* selected_df.merge(ref_df, on='LAP_NUMBER', how='left') and the gap
\* column: one row per match, and one with a null gap for a row without
\* match. rows is the ascending list of the labels of selected_df.
RECURSIVE Merge(_, _)
Merge(rows, ref) ==
    IF rows = <<>> THEN <<>>
    ELSE LET i == Head(rows)
             hits == SelectSeq(ref, LAMBDA j : RefMatches(i, j))
             out == IF hits = <<>>
                    THEN << [NUMBER |-> gap_df[i].NUMBER, LAP_NUMBER |-> gap_df[i].LAP_NUMBER,
                             GAP_TO_FASTEST |-> <<>>] >>
                    ELSE [h \in DOMAIN hits |->
                            [NUMBER |-> gap_df[i].NUMBER, LAP_NUMBER |-> gap_df[i].LAP_NUMBER,
                             GAP_TO_FASTEST |-> << CumTime(i) - CumTime(hits[h]) >>]]
         IN out \o Merge(Tail(rows), ref)

\* Tables: at most MaxGapRows rows, (car, lap) unique, car 1 in class GT and
\* car 2 in GT or P, rows in car-major order.
GapInit ==
    /\ \E S \in SUBSET (RollCars \X GapLaps) :
         /\ Cardinality(S) <= MaxGapRows
         /\ \E f \in [S -> GapHourTexts] : \E cls2 \in {"GT", "P"} :
              LET o == SeqByKey(S, [q \in RollCars \X GapLaps |-> q[1] * (MaxGapLap + 1) + q[2]])
              IN gap_df = [i \in 1..Len(o) |->
                             [CLASS |-> IF o[i][1] = 2 THEN cls2 ELSE "GT",
                              NUMBER |-> o[i][1], LAP_NUMBER |-> o[i][2], HOUR |-> f[o[i]]]]
    /\ gap_pc = "start"
    /\ transforms_run = FALSE
    /\ HOUR_DT = <<>>
    /\ gap_class = ""
    /\ selected_cars = {}
    /\ selected_df = {}
    /\ lap_range = <<>>
    /\ fastest_car = None
    /\ merged = <<>>
    /\ gap_outcome = ""

\* df = df.copy(); the HOUR_DT, ELAPSED_TD and LAP_TIME_SEC columns.
GapTransforms ==
    /\ gap_pc = "start"
    /\ HOUR_DT' = parse_hour_with_date_and_rollover(gap_df)
    /\ transforms_run' = TRUE
    /\ gap_pc' = "class"
    /\ UNCHANGED <<gap_df, gap_class, selected_cars, selected_df, lap_range,
                   fastest_car, merged, gap_outcome>>

\* The selectbox (a class of the table, none when it has no class) and the
\* multiselect (any subset of the cars of the class); an empty selection
\* ends the call with st.info.
GapSelect ==
    /\ gap_pc = "class"
    /\ LET classes == {gap_df[i].CLASS : i \in DOMAIN gap_df}
       IN \E cls \in (IF classes = {} THEN {""} ELSE classes) :
            LET car_numbers == {gap_df[i].NUMBER : i \in {j \in DOMAIN gap_df : gap_df[j].CLASS = cls}}
            IN \E sel \in SUBSET car_numbers :
                 /\ gap_class' = cls
                 /\ selected_cars' = sel
                 /\ IF sel = {}
                    THEN gap_outcome' = "info" /\ gap_pc' = "done"
                    ELSE gap_outcome' = gap_outcome /\ gap_pc' = "filter"
    /\ UNCHANGED <<gap_df, transforms_run, HOUR_DT, selected_df, lap_range, fastest_car, merged>>

\* selected_df: the selected cars' rows with a timestamp and a lap number;
\* int(selected_df['LAP_NUMBER'].min()) raises ValueError on an empty table.
GapFilter ==
    /\ gap_pc = "filter"
    /\ selected_df' = {i \in DOMAIN gap_df :
                         /\ gap_df[i].CLASS = gap_class
                         /\ gap_df[i].NUMBER \in selected_cars
                         /\ HOUR_DT[i] # NaT}
    /\ IF selected_df' = {}
       THEN gap_outcome' = "raised" /\ gap_pc' = "done"
       ELSE gap_outcome' = gap_outcome /\ gap_pc' = "slider"
    /\ UNCHANGED <<gap_df, transforms_run, HOUR_DT, gap_class, selected_cars, lap_range,
                   fastest_car, merged>>

\* The slider (any range within min_lap..max_lap), the lap filter, st.info
\* when no row is left, else the reference car, the merge and the chart.
GapChart ==
    /\ gap_pc = "slider"
    /\ LET laps == {gap_df[i].LAP_NUMBER : i \in selected_df}
           min_lap == CHOOSE m \in laps : \A x \in laps : m <= x
           max_lap == CHOOSE m \in laps : \A x \in laps : x <= m
       IN \E a \in min_lap..max_lap : \E b \in a..max_lap :
            LET rows == {i \in selected_df : gap_df[i].LAP_NUMBER \in a..b}
            IN /\ lap_range' = <<a, b>>
               /\ selected_df' = rows
               /\ IF rows = {}
                  THEN /\ gap_outcome' = "info"
                       /\ UNCHANGED <<fastest_car, merged>>
                  ELSE /\ fastest_car' = IdxMin(rows)
                       /\ merged' = Merge(SortedSeq(rows),
                                          SortedSeq({i \in rows : gap_df[i].NUMBER = IdxMin(rows)}))
                       /\ gap_outcome' = "chart"
    /\ gap_pc' = "done"
    /\ UNCHANGED <<gap_df, transforms_run, HOUR_DT, gap_class, selected_cars>>

GapIdle ==
    /\ gap_df = <<>> /\ gap_pc = "idle" /\ transforms_run = FALSE /\ HOUR_DT = <<>>
    /\ gap_class = "" /\ selected_cars = {} /\ selected_df = {} /\ lap_range = <<>>
    /\ fastest_car = None /\ merged = <<>> /\ gap_outcome = ""

\* ------------------------------------------------------------------
\* gap_evolution_chart.py: time_to_seconds
\* ------------------------------------------------------------------
\* Mutant: only the m:s shape and the bare numeral are converted.
time_to_secondsNoHours(time_str_) ==
    IF time_str_ = NotAString THEN None
    ELSE LET parts == Split(time_str_, ":")
         IN IF Len(parts) = 2
            THEN (IF IntOk(parts[1]) /\ FloatOk(parts[2])
                  THEN DecVal(parts[1]) * 60 * 1000 + FloatMilli(parts[2])
                  ELSE None)
            ELSE IF Len(parts) = 1 /\ FloatOk(time_str_) THEN FloatMilli(time_str_)
            ELSE None

\* time_to_seconds(time_str), in thousandths: str(time_str).split(':'), three
\* parts h, m, s, two parts m, s, else float(time_str); int() and float()
\* raise on a malformed part and the bare except returns None. A missing
\* value is the float NaN: str() gives "nan", float() gives NaN, a null.
time_to_seconds(time_str_) ==
    IF time_str_ = NotAString THEN None
    ELSE LET parts == Split(time_str_, ":")
         IN IF Len(parts) = 3
            THEN (IF IntOk(parts[1]) /\ IntOk(parts[2]) /\ FloatOk(parts[3])
                  THEN (DecVal(parts[1]) * 3600 + DecVal(parts[2]) * 60) * 1000
                         + FloatMilli(parts[3])
                  ELSE None)
            ELSE IF Len(parts) = 2
            THEN (IF IntOk(parts[1]) /\ FloatOk(parts[2])
                  THEN DecVal(parts[1]) * 60 * 1000 + FloatMilli(parts[2])
                  ELSE None)
            ELSE IF FloatOk(time_str_) THEN FloatMilli(time_str_)
            ELSE None

\* The value passed in: any text over LapChars of the bound, or a missing
\* value.
TimeInit ==
    /\ time_str \in TextsUpTo(MaxLapLen) \cup {NotAString}
    /\ time_pc = "start"
    /\ time_sec = None

\* df['LAP_TIME'].apply(time_to_seconds), for one value.
TimeConvert ==
    /\ time_pc = "start"
    /\ time_sec' = time_to_seconds(time_str)
    /\ time_pc' = "done"
    /\ UNCHANGED time_str

TimeIdle ==
    /\ time_str = <<>> /\ time_pc = "idle" /\ time_sec = None

\* ------------------------------------------------------------------
\* The transforms as operations on DataFrame objects: which statements
\* make a new object and which change one in place
\* ------------------------------------------------------------------
\* Bound: rows of the raw table.
MaxFrameRows == 2

\* Rows of the raw table, before their index label is set.
FrameRowSamples ==
    { [idx |-> 0, CLASS |-> "GT", NUMBER |-> 1, LAP_NUMBER |-> 1, HOUR |-> <<23, 59, 50>>,
       LAP_TIME |-> <<"1", ":", "2">>, DRIVER_NAME |-> "A",
       ELAPSED |-> <<"9", ":", "5", "9">>, TEAM |-> <<"A", "f">>,
       LAP_TIME_SECONDS |-> None, HOUR_DT |-> NaT, LAP_TIME_SEC |-> None],
      [idx |-> 0, CLASS |-> "GT", NUMBER |-> 1, LAP_NUMBER |-> 2, HOUR |-> <<0, 0, 5>>,
       LAP_TIME |-> <<"1", ":", "1">>, DRIVER_NAME |-> "A",
       ELAPSED |-> <<"1", "0", ":", "0", "1">>, TEAM |-> <<"A", "f">>,
       LAP_TIME_SECONDS |-> None, HOUR_DT |-> NaT, LAP_TIME_SEC |-> None],
      [idx |-> 0, CLASS |-> "GT", NUMBER |-> 2, LAP_NUMBER |-> 1, HOUR |-> <<7>>,
       LAP_TIME |-> <<"1", ":", "2", ":", "1">>, DRIVER_NAME |-> "B",
       ELAPSED |-> <<"9", ":", "5", "8">>, TEAM |-> <<"X">>,
       LAP_TIME_SECONDS |-> None, HOUR_DT |-> NaT, LAP_TIME_SEC |-> None],
      [idx |-> 0, CLASS |-> "P", NUMBER |-> 2, LAP_NUMBER |-> 2, HOUR |-> <<12, 0, 0>>,
       LAP_TIME |-> <<"x">>, DRIVER_NAME |-> "B",
       ELAPSED |-> <<"9", ":", "5", "9">>, TEAM |-> <<"X">>,
       LAP_TIME_SECONDS |-> None, HOUR_DT |-> NaT, LAP_TIME_SEC |-> None] }

\* Columns of the raw table.
RawColumns == {"CLASS", "NUMBER", "LAP_NUMBER", "HOUR", "LAP_TIME", "DRIVER_NAME",
               "ELAPSED", "TEAM"}

\* Mutant: no copy is made, the name is bound to the object passed in.
CopyAlias(h, id) == [heap |-> h, ref |-> id]

\* df.copy(): a new object with the content of the old one.
Copy(h, id) == [heap |-> Append(h, h[id]), ref |-> Len(h) + 1]

\* An expression that returns a new DataFrame (a boolean-mask selection,
\* sort_values, dropna, reset_index, merge).
Alloc(h, table) == [heap |-> Append(h, table), ref |-> Len(h) + 1]

\* df[column] = values: the object itself is changed.
SetItem(h, id, table) == [h EXCEPT ![id] = table]

\* The table with a column set: values[i] in row i.
WithColumn(table, column, values) ==
    [cols |-> table.cols \cup {column},
     rows |-> [i \in DOMAIN table.rows |-> [table.rows[i] EXCEPT ![column] = values[i]]]]

\* The table with a column whose cells the model does not evaluate
\* (ELAPSED_TD of pandas.to_timedelta, CUM_TIME_SEC).
WithOpaqueColumn(table, column) == [table EXCEPT !.cols = @ \cup {column}]

\* reset_index(drop=True)
ResetIndex(rows) == [i \in DOMAIN rows |-> [rows[i] EXCEPT !.idx = i]]

\* The one table there is before the call: a raw table, or what
\* preprocess_race returned for it.
FrameInit ==
    /\ \E rows \in SeqsUpTo(FrameRowSamples, MaxFrameRows) : \E pre \in BOOLEAN :
         /\ \A i, j \in DOMAIN rows : i # j => rows[i] # rows[j]
         /\ LET raw == [cols |-> RawColumns, rows |-> ResetIndex(rows)]
            IN heap = << IF pre THEN preprocess_race(raw) ELSE raw >>
    /\ frame_fn = ""
    /\ frame_arg = None
    /\ frame_before = NoTable
    /\ frame_result = <<"none">>

\* What every call records: the transform, the object passed, its content.
FrameCalled(fn, a) ==
    /\ frame_fn = ""
    /\ frame_fn' = fn
    /\ frame_arg' = a
    /\ frame_before' = heap[a]

\* preprocess_race(df): df = df.copy(); df["LAP_TIME_SECONDS"] = ...;
\* df = df.dropna(...); return df.
FramePreprocessRace ==
    \E a \in DOMAIN heap :
      /\ FrameCalled("preprocess_race", a)
      /\ LET c == Copy(heap, a)
             df == c.heap[c.ref]
             set == SetItem(c.heap, c.ref,
                      WithColumn(df, "LAP_TIME_SECONDS",
                        [i \in DOMAIN df.rows |-> lap_to_seconds(df.rows[i].LAP_TIME)]))
             out == Alloc(set, preprocess_race(heap[a]))
         IN heap' = out.heap /\ frame_result' = <<"table", out.ref>>

\* preprocess_lap_position_data(df), of either file: df is only read, the
\* result is a dict.
FramePreprocessLapPosition ==
    \E a \in DOMAIN heap :
      /\ FrameCalled("preprocess_lap_position_data", a)
      /\ \E other \in BOOLEAN :
           frame_result' = <<"dict", IF other
                                     THEN race_preprocessing_preprocess_lap_position_data(heap[a].rows)
                                     ELSE preprocess_lap_position_data(heap[a].rows)>>
      /\ heap' = heap

\* get_sorted_driver_laps(pre_df, driver): selection, sort_values and
\* reset_index each return a new table. pre_df has LAP_TIME_SECONDS.
FrameGetSortedDriverLaps ==
    \E a \in DOMAIN heap : \E d \in {"A", "B"} :
      /\ "LAP_TIME_SECONDS" \in heap[a].cols
      /\ FrameCalled("get_sorted_driver_laps", a)
      /\ LET out == Alloc(heap, [cols |-> heap[a].cols,
                                 rows |-> ResetIndex(get_sorted_driver_laps(heap[a].rows, d))])
         IN heap' = out.heap /\ frame_result' = <<"table", out.ref>>

\* parse_hour_with_date_and_rollover(df, race_start_date): sort_values
\* returns a new table, the timestamps go into a new Series.
FrameParseHour ==
    \E a \in DOMAIN heap :
      /\ FrameCalled("parse_hour_with_date_and_rollover", a)
      /\ LET df == heap[a]
             sorted == Alloc(heap, [cols |-> df.cols,
                                    rows |-> [k \in DOMAIN df.rows |-> df.rows[SortedByLap(df.rows)[k]]]])
         IN /\ heap' = sorted.heap
            /\ frame_result' = <<"series", parse_hour_with_date_and_rollover(df.rows)>>

\* show_gap_evolution_chart(df, ...): df = df.copy(), three columns set on
\* the copy, class_df and selected_df are copies of selections, LAP_NUMBER is
\* set on selected_df, dropna and the lap filter return new tables, and
\* CUM_TIME_SEC is set on the last of them before the merge.
FrameGapChart ==
    \E a \in DOMAIN heap :
      /\ FrameCalled("show_gap_evolution_chart", a)
      /\ LET c == Copy(heap, a)
             df0 == c.heap[c.ref]
             df1 == WithColumn(df0, "HOUR_DT", parse_hour_with_date_and_rollover(df0.rows))
             df2 == WithOpaqueColumn(df1, "ELAPSED_TD")
             df3 == WithColumn(df2, "LAP_TIME_SEC",
                      [i \in DOMAIN df2.rows |-> time_to_seconds(df2.rows[i].LAP_TIME)])
             h3 == SetItem(SetItem(SetItem(c.heap, c.ref, df1), c.ref, df2), c.ref, df3)
             classes == {df3.rows[i].CLASS : i \in DOMAIN df3.rows}
         IN \E cls \in (IF classes = {} THEN {""} ELSE classes) :
              LET class_df_ == Alloc(h3, [df3 EXCEPT !.rows = SelectSeq(@, LAMBDA r : r.CLASS = cls)])
                  car_numbers == {r.NUMBER : r \in Range(class_df_.heap[class_df_.ref].rows)}
              IN \E sel \in SUBSET car_numbers :
                   IF sel = {}
                   THEN heap' = class_df_.heap /\ frame_result' = <<"none">>
                   ELSE LET picked == Alloc(class_df_.heap,
                                        [df3 EXCEPT !.rows = SelectSeq(@, LAMBDA r :
                                                               r.CLASS = cls /\ r.NUMBER \in sel)])
                            h5 == SetItem(picked.heap, picked.ref, picked.heap[picked.ref])
                            dropped == Alloc(h5, [df3 EXCEPT !.rows = SelectSeq(@, LAMBDA r :
                                                     r.CLASS = cls /\ r.NUMBER \in sel /\ r.HOUR_DT # NaT)])
                            laps == {r.LAP_NUMBER : r \in Range(dropped.heap[dropped.ref].rows)}
                        IN IF laps = {}
                           THEN heap' = dropped.heap /\ frame_result' = <<"raised">>
                           ELSE \E lo \in laps : \E hi \in laps :
                                  /\ lo <= hi
                                  /\ LET ranged == Alloc(dropped.heap,
                                            [df3 EXCEPT !.rows = SelectSeq(@, LAMBDA r :
                                                /\ r.CLASS = cls /\ r.NUMBER \in sel /\ r.HOUR_DT # NaT
                                                /\ r.LAP_NUMBER >= lo /\ r.LAP_NUMBER <= hi)])
                                         h8 == SetItem(ranged.heap, ranged.ref,
                                                 WithOpaqueColumn(ranged.heap[ranged.ref], "CUM_TIME_SEC"))
                                     IN heap' = h8 /\ frame_result' = <<"none">>

FrameIdle ==
    /\ heap = <<>> /\ frame_fn = "" /\ frame_arg = None
    /\ frame_before = NoTable /\ frame_result = <<"none">>

\* ------------------------------------------------------------------
\* streamlit_app.py: parse_race_start_date and the page dispatch
\* ------------------------------------------------------------------
\* Bound of the file names: number of pieces a name is put together from.
MaxNamePieces == 4

\* Number of digits the regular expression _(\d{8}) captures.
DateTokenLen == 8

\* Pieces of file names: a letter, an underscore, a digit, the 8-digit texts
\* 20240229, 20230229 and 00000101, and the 7-digit text 2024130.
NamePieces ==
    { <<"r">>, <<"_">>, <<"1">>,
      <<"2", "0", "2", "4", "0", "2", "2", "9">>,
      <<"2", "0", "2", "3", "0", "2", "2", "9">>,
      <<"0", "0", "0", "0", "0", "1", "0", "1">>,
      <<"2", "0", "2", "4", "1", "3", "0">> }

RECURSIVE Concat(_)
Concat(pieces) == IF pieces = <<>> THEN <<>> ELSE Head(pieces) \o Concat(Tail(pieces))

Pages == {"Overview", "Team by team", "Team season comparison", "Track analysis",
          "Practice / Test analysis"}

\* The regular expression matches at position i: an underscore, then
\* DateTokenLen digits.
MatchAt(name, i) ==
    /\ name[i] = "_"
    /\ i + DateTokenLen <= Len(name)
    /\ \A j \in 1..DateTokenLen : name[i + j] \in Digits

\* Mutant: the search keeps the last match.
MatchPositionLast(name) ==
    CHOOSE i \in DOMAIN name : MatchAt(name, i) /\ \A j \in DOMAIN name : MatchAt(name, j) => j <= i

\* re.search: the leftmost match.
MatchPosition(name) ==
    CHOOSE i \in DOMAIN name : MatchAt(name, i) /\ \A j \in DOMAIN name : MatchAt(name, j) => i <= j

IsLeap(y) == (y % 4 = 0 /\ y % 100 # 0) \/ y % 400 = 0

DaysInMonth(y, m) ==
    IF m = 2 THEN (IF IsLeap(y) THEN 29 ELSE 28)
    ELSE IF m \in {4, 6, 9, 11} THEN 30 ELSE 31

\* datetime.strptime(token, "%Y%m%d").date(): ValueError, hence None, unless
\* the token reads as year 1..9999, month 01..12 and a day of that month.
strptime_date(token) ==
    LET y == DecVal(SubSeq(token, 1, 4))
        m == DecVal(SubSeq(token, 5, 6))
        d == DecVal(SubSeq(token, 7, 8))
    IN IF y >= 1 /\ m \in 1..12 /\ d \in 1..DaysInMonth(y, m) THEN <<y, m, d>> ELSE <<>>

parse_race_start_date(filename) ==
    IF ~\E i \in DOMAIN filename : MatchAt(filename, i) THEN <<>>
    ELSE LET i == MatchPosition(filename)
         IN strptime_date(SubSeq(filename, i + 1, i + DateTokenLen))

\* The functions the Overview tab calls, in order.
OverviewCalls ==
    << "show_race_stats", "show_pace_chart", "show_driver_pace_chart",
       "show_lap_position_chart", "show_driver_pace_comparison", "show_results_table",
       "show_gap_evolution_chart", "show_cumulative_time_chart", "show_stint_pace_chart",
       "show_tyre_analysis" >>

AppInit ==
    /\ \E pieces \in SeqsUpTo(NamePieces, MaxNamePieces) : race_file = Concat(pieces)
    /\ page \in Pages
    /\ app_pc = "load"
    /\ app_start_date = <<>>
    /\ invoked = <<>>
    /\ stopped = FALSE

\* if page != "Practice / Test analysis": load the selected race file,
\* preprocess, parse the date of its name.
AppLoad ==
    /\ app_pc = "load"
    /\ page # "Practice / Test analysis"
    /\ app_start_date' = parse_race_start_date(race_file)
    /\ app_pc' = "pages"
    /\ UNCHANGED <<race_file, page, invoked, stopped>>

\* The practice page loads no race file.
AppSkipLoad ==
    /\ app_pc = "load"
    /\ page = "Practice / Test analysis"
    /\ app_pc' = "pages"
    /\ UNCHANGED <<race_file, page, app_start_date, invoked, stopped>>

\* if page == "Overview": st.error and st.stop() without a start date, else
\* the calls of the two tabs.
AppOverview ==
    /\ app_pc = "pages"
    /\ page = "Overview"
    /\ IF app_start_date = <<>>
       THEN stopped' = TRUE /\ invoked' = invoked
       ELSE stopped' = stopped /\ invoked' = invoked \o OverviewCalls
    /\ app_pc' = "done"
    /\ UNCHANGED <<race_file, page, app_start_date>>

\* Number of non-empty classes of the race on the "Team by team" page.
ClassCounts == {0, 1, 2}

\* The other pages: one call each, on "Team by team" one per non-empty class.
AppOtherPage ==
    /\ app_pc = "pages"
    /\ page # "Overview"
    /\ \E n \in ClassCounts :
         invoked' = invoked \o
            (IF page = "Team by team"
             THEN [k \in 1..n |-> "show_team_driver_pace_comparison"]
             ELSE IF page = "Team season comparison" THEN <<"show_team_season_comparison">>
             ELSE IF page = "Track analysis" THEN <<"show_track_analysis">>
             ELSE <<"show_practice_analysis">>)
    /\ app_pc' = "done"
    /\ UNCHANGED <<race_file, page, app_start_date, stopped>>

AppIdle ==
    /\ race_file = <<>> /\ page = "" /\ app_pc = "idle" /\ app_start_date = <<>>
    /\ invoked = <<>> /\ stopped = FALSE

\* ------------------------------------------------------------------
\* Specifications: one transform runs, the others stay idle.
\* ------------------------------------------------------------------
NextRollover ==
    \/ RollNextCar /\ UNCHANGED <<raceVars, paceVars, posVars, gapVars, appVars, timeVars, frameVars>>
    \/ RollRow /\ UNCHANGED <<raceVars, paceVars, posVars, gapVars, appVars, timeVars, frameVars>>
    \/ RollEndCar /\ UNCHANGED <<raceVars, paceVars, posVars, gapVars, appVars, timeVars, frameVars>>
    \/ RollReturn /\ UNCHANGED <<raceVars, paceVars, posVars, gapVars, appVars, timeVars, frameVars>>

InitRollover == RollInit /\ RaceIdle /\ PaceIdle /\ PosIdle /\ GapIdle /\ AppIdle /\ TimeIdle /\ FrameIdle

SpecRollover == InitRollover /\ [][NextRollover]_vars

NextRace ==
    \/ RaceFirstPass /\ UNCHANGED <<rollVars, paceVars, posVars, gapVars, appVars, timeVars, frameVars>>
    \/ RaceSecondPass /\ UNCHANGED <<rollVars, paceVars, posVars, gapVars, appVars, timeVars, frameVars>>

InitRace == RaceInit /\ RollIdle /\ PaceIdle /\ PosIdle /\ GapIdle /\ AppIdle /\ TimeIdle /\ FrameIdle

SpecRace == InitRace /\ [][NextRace]_vars

NextPace ==
    \/ PaceSort /\ UNCHANGED <<rollVars, raceVars, posVars, gapVars, appVars, timeVars, frameVars>>
    \/ PaceAverage /\ UNCHANGED <<rollVars, raceVars, posVars, gapVars, appVars, timeVars, frameVars>>

InitPace == PaceInit /\ RollIdle /\ RaceIdle /\ PosIdle /\ GapIdle /\ AppIdle /\ TimeIdle /\ FrameIdle

SpecPace == InitPace /\ [][NextPace]_vars

NextPosition ==
    \/ PosPreprocess /\ UNCHANGED <<rollVars, raceVars, paceVars, gapVars, appVars, timeVars, frameVars>>
    \/ PosColours /\ UNCHANGED <<rollVars, raceVars, paceVars, gapVars, appVars, timeVars, frameVars>>
    \/ PosTrajectories /\ UNCHANGED <<rollVars, raceVars, paceVars, gapVars, appVars, timeVars, frameVars>>
    \/ PosPreprocessOther /\ UNCHANGED <<rollVars, raceVars, paceVars, gapVars, appVars, timeVars, frameVars>>

InitPosition == PosInit /\ RollIdle /\ RaceIdle /\ PaceIdle /\ GapIdle /\ AppIdle /\ TimeIdle /\ FrameIdle

SpecPosition == InitPosition /\ [][NextPosition]_vars

NextGap ==
    \/ GapTransforms /\ UNCHANGED <<rollVars, raceVars, paceVars, posVars, appVars, timeVars, frameVars>>
    \/ GapSelect /\ UNCHANGED <<rollVars, raceVars, paceVars, posVars, appVars, timeVars, frameVars>>
    \/ GapFilter /\ UNCHANGED <<rollVars, raceVars, paceVars, posVars, appVars, timeVars, frameVars>>
    \/ GapChart /\ UNCHANGED <<rollVars, raceVars, paceVars, posVars, appVars, timeVars, frameVars>>

InitGap == GapInit /\ RollIdle /\ RaceIdle /\ PaceIdle /\ PosIdle /\ AppIdle /\ TimeIdle /\ FrameIdle

SpecGap == InitGap /\ [][NextGap]_vars

NextApp ==
    \/ AppLoad /\ UNCHANGED <<rollVars, raceVars, paceVars, posVars, gapVars, timeVars, frameVars>>
    \/ AppSkipLoad /\ UNCHANGED <<rollVars, raceVars, paceVars, posVars, gapVars, timeVars, frameVars>>
    \/ AppOverview /\ UNCHANGED <<rollVars, raceVars, paceVars, posVars, gapVars, timeVars, frameVars>>
    \/ AppOtherPage /\ UNCHANGED <<rollVars, raceVars, paceVars, posVars, gapVars, timeVars, frameVars>>

InitApp == AppInit /\ RollIdle /\ RaceIdle /\ PaceIdle /\ PosIdle /\ GapIdle /\ TimeIdle /\ FrameIdle

SpecApp == InitApp /\ [][NextApp]_vars

NextTime ==
    \/ TimeConvert /\ UNCHANGED <<rollVars, raceVars, paceVars, posVars, gapVars, appVars, frameVars>>

InitTime == TimeInit /\ RollIdle /\ RaceIdle /\ PaceIdle /\ PosIdle /\ GapIdle /\ AppIdle /\ FrameIdle

SpecTime == InitTime /\ [][NextTime]_vars

NextFrame ==
    \/ FramePreprocessRace /\ UNCHANGED <<rollVars, raceVars, paceVars, posVars, gapVars, appVars, timeVars>>
    \/ FramePreprocessLapPosition /\ UNCHANGED <<rollVars, raceVars, paceVars, posVars, gapVars, appVars, timeVars>>
    \/ FrameGetSortedDriverLaps /\ UNCHANGED <<rollVars, raceVars, paceVars, posVars, gapVars, appVars, timeVars>>
    \/ FrameParseHour /\ UNCHANGED <<rollVars, raceVars, paceVars, posVars, gapVars, appVars, timeVars>>
    \/ FrameGapChart /\ UNCHANGED <<rollVars, raceVars, paceVars, posVars, gapVars, appVars, timeVars>>

InitFrame == FrameInit /\ RollIdle /\ RaceIdle /\ PaceIdle /\ PosIdle /\ GapIdle /\ AppIdle /\ TimeIdle

SpecFrame == InitFrame /\ [][NextFrame]_vars

InitPaceMonotone == PaceMonotoneInit /\ RollIdle /\ RaceIdle /\ PosIdle /\ GapIdle /\ AppIdle /\ TimeIdle /\ FrameIdle

SpecPaceMonotone == InitPaceMonotone /\ [][NextPace]_vars

InitSmallGrid == PosSmallGridInit /\ RollIdle /\ RaceIdle /\ PaceIdle /\ GapIdle /\ AppIdle /\ TimeIdle /\ FrameIdle

SpecSmallGrid == InitSmallGrid /\ [][NextPosition]_vars

\* ---- Claims on the rollover ----
\* Rows of car c, and those the loop has parsed a time of day from.
RowsOfCar(c) == {i \in DOMAIN roll_df : roll_df[i].NUMBER = c}
Parsable(i) == parse_time(roll_df[i].HOUR) # None

\* The parsable row of the same car that precedes row b in lap order, or None.
PrevParsed(b, among) ==
    LET before == {a \in among : /\ roll_df[a].NUMBER = roll_df[b].NUMBER
                                 /\ Parsable(a)
                                 /\ roll_df[a].LAP_NUMBER < roll_df[b].LAP_NUMBER}
    IN IF before = {} THEN None
       ELSE CHOOSE a \in before :
              \A x \in before : roll_df[x].LAP_NUMBER <= roll_df[a].LAP_NUMBER

DayOf(ts) == ts \div MsPerDay

\* C3: once the scan is over, each parsable row's timestamp is its time of
\* day on a date that is the car's previous parsable row's date, plus exactly
\* one day when the time of day is strictly less than that row's, and the
\* start date when the car has no earlier parsable row; 23:59:50 followed by
\* 00:00:05 are exactly 15 seconds apart.
C3_RolloverExactlyOneDay ==
    roll_pc = "done" =>
      \A b \in DOMAIN roll_df : Parsable(b) =>
        LET t == parse_time(roll_df[b].HOUR)
            a == PrevParsed(b, DOMAIN roll_df)
        IN /\ hour_dt[b] # NaT
           /\ hour_dt[b] = DayOf(hour_dt[b]) * MsPerDay + t
           /\ IF a = None
              THEN DayOf(hour_dt[b]) = race_start_date
              ELSE LET ta == parse_time(roll_df[a].HOUR)
                   IN /\ DayOf(hour_dt[b]) - DayOf(hour_dt[a])
                           = (IF t < ta THEN 1 ELSE 0)
                      /\ (roll_df[a].HOUR = <<23, 59, 50>> /\ roll_df[b].HOUR = <<0, 0, 5>>)
                           => hour_dt[b] - hour_dt[a] = 15 * 1000

\* C3 witness: a finished scan in which 00:00:05 follows 23:59:50 for a car.
C3_Witness ==
    /\ roll_pc = "done"
    /\ \E a, b \in DOMAIN roll_df :
         /\ roll_df[a].HOUR = <<23, 59, 50>> /\ roll_df[b].HOUR = <<0, 0, 5>>
         /\ PrevParsed(b, DOMAIN roll_df) = a
         /\ hour_dt[b] = hour_dt[a] + 15 * 1000

\* Rows of the current car the row loop has already been through.
Scanned == IF car_id = None THEN {} ELSE RowsOfCar(car_id) \ Range(roll_rows)

LatestParsedScanned ==
    LET ps == {a \in Scanned : Parsable(a)}
    IN IF ps = {} THEN None
       ELSE CHOOSE a \in ps : \A x \in ps : roll_df[x].LAP_NUMBER <= roll_df[a].LAP_NUMBER

\* C8: while a car is scanned, every unparsable row already passed has a
\* null timestamp, and last_time and current_date are those of the latest
\* parsable row already passed (None and the start date when there is none):
\* an unparsable row changes neither.
C8_UnparsableLeavesState ==
    roll_pc = "row" =>
      /\ \A i \in Scanned : ~Parsable(i) => hour_dt[i] = NaT
      /\ IF LatestParsedScanned = None
         THEN last_time = None /\ current_date = race_start_date
         ELSE /\ last_time = parse_time(roll_df[LatestParsedScanned].HOUR)
              /\ current_date = DayOf(hour_dt[LatestParsedScanned])

\* C8 witness: the loop has just passed an unparsable row that follows a
\* parsable row of the same car, and another row is still to come.
C8_Witness ==
    /\ roll_pc = "row"
    /\ roll_rows # <<>>
    /\ \E i \in Scanned :
         /\ ~Parsable(i)
         /\ LatestParsedScanned # None
         /\ roll_df[LatestParsedScanned].LAP_NUMBER < roll_df[i].LAP_NUMBER
         /\ last_time = parse_time(roll_df[LatestParsedScanned].HOUR)

\* ---- Claims on preprocess_race ----
\* The conversion the specification states for a lap-time text, in
\* thousandths: m*60+s for m:s, h*3600+m*60+s for h:m:s, None otherwise.
StatedLapSeconds(x) ==
    IF x = NotAString THEN None
    ELSE LET parts == Split(x, ":")
         IN IF Len(parts) = 2 /\ IntOk(parts[1]) /\ FloatOk(parts[2])
            THEN DecVal(parts[1]) * 60 * 1000 + FloatMilli(parts[2])
            ELSE IF Len(parts) = 3 /\ IntOk(parts[1]) /\ IntOk(parts[2]) /\ FloatOk(parts[3])
            THEN (DecVal(parts[1]) * 3600 + DecVal(parts[2]) * 60) * 1000 + FloatMilli(parts[3])
            ELSE None

\* C2: after preprocess_race, every input row whose LAP_TIME has shape m:s or
\* h:m:s is kept with LAP_TIME_SECONDS equal to the stated conversion, and
\* every other row is dropped (its conversion is null).
C2_LapToSecondsBothShapes ==
    race_pc # "start" =>
      \A i \in DOMAIN race_df.rows :
        LET want == StatedLapSeconds(race_df.rows[i].LAP_TIME)
            kept == {r \in Range(race_out1.rows) : r.idx = race_df.rows[i].idx}
        IN IF want = None THEN kept = {}
           ELSE \E r \in kept : r.LAP_TIME_SECONDS = want

\* C6: preprocess_race applied to its own output returns that output: same
\* columns, same rows in the same order, same values.
C6_PreprocessIdempotent ==
    race_pc = "twice" => race_out2 = race_out1

\* C6 witness: both passes ran on a table of which the first pass kept a row
\* and dropped a row.
C6_Witness ==
    /\ race_pc = "twice"
    /\ race_out1.rows # <<>>
    /\ Len(race_out1.rows) < Len(race_df.rows)
    /\ race_out2 = race_out1

\* ---- Claims on the percentile average ----
RECURSIVE SumTimes(_)
SumTimes(K) ==
    IF K = {} THEN 0
    ELSE LET i == CHOOSE x \in K : TRUE
         IN pre_df[i].LAP_TIME_SECONDS + SumTimes(K \ {i})

\* Rows of the driver asked for.
LapsOfDriver == {i \in DOMAIN pre_df : pre_df[i].DRIVER_NAME = driver}

\* C5: the result is null exactly when the driver has no lap; otherwise it
\* is the mean of a set of max(1, floor(n*P/100)) of the driver's laps none
\* of which is slower than a lap left out; laps 90..94 at P = 40 give
\* (90 + 91) / 2.
C5_PercentileAverage ==
    pace_pc = "done" =>
      LET n == Cardinality(LapsOfDriver)
          k == IF (n * percentile) \div 100 >= 1 THEN (n * percentile) \div 100 ELSE 1
      IN /\ (avg_time = <<>>) <=> (n = 0)
         /\ n >= 1 =>
              /\ avg_time[2] = k
              /\ \E K \in SUBSET LapsOfDriver :
                   /\ Cardinality(K) = k
                   /\ \A a \in K : \A b \in LapsOfDriver \ K :
                        pre_df[a].LAP_TIME_SECONDS <= pre_df[b].LAP_TIME_SECONDS
                   /\ avg_time[1] = SumTimes(K)
         /\ ({pre_df[i].LAP_TIME_SECONDS : i \in LapsOfDriver} = 90..94 /\ n = 5
               /\ percentile = 40)
              => avg_time = <<90 + 91, 2>>

\* C5 witness: driver A's laps are 90..94 in some order, P = 40, and the
\* result is 181/2 = 90.5.
C5_Witness ==
    /\ pace_pc = "done"
    /\ driver = "A"
    /\ Cardinality(LapsOfDriver) = 5
    /\ {pre_df[i].LAP_TIME_SECONDS : i \in LapsOfDriver} = 90..94
    /\ pre_df[1].LAP_TIME_SECONDS = 94
    /\ percentile = 40
    /\ avg_time = <<181, 2>>

\* ---- Claims on the lap position chart ----
\* An m:s ELAPSED text as a duration in seconds.
ElapsedSeconds(text) ==
    LET parts == Split(text, ":")
    IN DecVal(parts[1]) * 60 + DecVal(parts[2])

\* Rows of class cls with lap number lap.
RowsOnLap(cls, lap) ==
    {i \in DOMAIN pos_df : pos_df[i].CLASS = cls /\ pos_df[i].LAP_NUMBER = lap}

\* The elapsed duration of a car on a lap ((car, lap) is unique).
DurationOn(cls, lap, car) ==
    LET i == CHOOSE j \in RowsOnLap(cls, lap) : pos_df[j].NUMBER = car
    IN ElapsedSeconds(pos_df[i].ELAPSED)

\* C1: for every class of the result and every lap 1..max_lap, the first k
\* cells of the lap's column hold the k cars recorded on that lap in
\* ascending order of elapsed duration, and the cells after them hold no car.
C1_RanksByElapsedDuration ==
    pos_pc # "start" =>
      \A cls \in DOMAIN preprocessed :
        \A lap \in 1..preprocessed[cls].max_lap :
          LET col == preprocessed[cls].position_df[lap]
              cars == {pos_df[i].NUMBER : i \in RowsOnLap(cls, lap)}
              k == Cardinality(cars)
          IN /\ k <= Len(col)
             /\ {col[r] : r \in 1..k} = cars
             /\ \A r \in (k + 1)..Len(col) : col[r] = None
             /\ \A r \in 1..k : \A q \in 1..k :
                  r < q => DurationOn(cls, lap, col[r]) <= DurationOn(cls, lap, col[q])

\* The first TEAM of a car among the rows of a class.
FirstTeam(cls, car) ==
    pos_df[CHOOSE i \in DOMAIN pos_df :
             /\ pos_df[i].CLASS = cls /\ pos_df[i].NUMBER = car
             /\ \A j \in 1..(i - 1) : ~(pos_df[j].CLASS = cls /\ pos_df[j].NUMBER = car)].TEAM

\* C7: once the colours of a class are set, every car of its grid whose
\* team equals a key of team_colors up to case has that key's colour, and a
\* car whose team matches no key has the neutral colour.
C7_TeamColourCaseInsensitive ==
    pos_pc = "coloured" =>
      \A car \in AvailableCars(preprocessed[selected_class].position_df) :
        LET matches == {key \in DOMAIN team_colors :
                          Lower(key) = Lower(FirstTeam(selected_class, car))}
        IN IF matches = {}
           THEN car_colors[car] = NeutralColor
           ELSE \E key \in matches : car_colors[car] = team_colors[key]

\* ---- Claims on the gap evolution chart ----
\* C4: in the chart's data the reference car is a selected car whose largest
\* cumulative time over the lap range is smallest, and at every lap it
\* completed in the range it has a merged row, each with gap 0.
C4_ReferenceGapZero ==
    gap_outcome = "chart" =>
      /\ fastest_car \in {gap_df[i].NUMBER : i \in selected_df}
      /\ \A i \in selected_df :
           FinalTime(selected_df, fastest_car) <= FinalTime(selected_df, gap_df[i].NUMBER)
      /\ \A i \in selected_df : gap_df[i].NUMBER = fastest_car =>
           LET own == {k \in DOMAIN merged :
                         /\ merged[k].NUMBER = fastest_car
                         /\ merged[k].LAP_NUMBER = gap_df[i].LAP_NUMBER}
           IN /\ own # {}
              /\ \A k \in own : merged[k].GAP_TO_FASTEST = <<0>>

\* C4 witness: a chart of two cars in which the reference car completed two
\* laps of the range and the other car has a non-zero gap.
C4_Witness ==
    /\ gap_outcome = "chart"
    /\ Cardinality({i \in selected_df : gap_df[i].NUMBER = fastest_car}) >= 2
    /\ \E k \in DOMAIN merged :
         /\ merged[k].NUMBER # fastest_car
         /\ merged[k].GAP_TO_FASTEST # <<>>
         /\ merged[k].GAP_TO_FASTEST # <<0>>

\* Rows that survive the filters chosen so far: the class, the selected
\* cars, a timestamp, and the lap range once the slider has one.
Survivors ==
    {i \in DOMAIN gap_df :
       /\ gap_df[i].CLASS = gap_class
       /\ gap_df[i].NUMBER \in selected_cars
       /\ parse_time(gap_df[i].HOUR) # None
       /\ lap_range # <<>> => gap_df[i].LAP_NUMBER \in lap_range[1]..lap_range[2]}

\* C9: a call that ends with an empty car selection or with no surviving
\* row has ended with the informational message, has not raised, and has
\* run no transform.
C9_EmptyEndsWithInfoOnly ==
    (gap_pc = "done" /\ (selected_cars = {} \/ Survivors = {})) =>
      (gap_outcome = "info" /\ ~transforms_run)

\* ---- Claims on the race start date ----
\* The 8 characters after position i read as a calendar date YYYYMMDD.
IsCalendarDate(name, i) ==
    LET y == DecVal(SubSeq(name, i + 1, i + 4))
        m == DecVal(SubSeq(name, i + 5, i + 6))
        d == DecVal(SubSeq(name, i + 7, i + 8))
        days == IF m = 2
                THEN (IF (y % 4 = 0 /\ y % 100 # 0) \/ y % 400 = 0 THEN 29 ELSE 28)
                ELSE IF m \in {4, 6, 9, 11} THEN 30 ELSE 31
    IN y >= 1 /\ 1 <= m /\ m <= 12 /\ 1 <= d /\ d <= days

\* Positions of the name where an underscore is followed by 8 digits.
TokenPositions(name) ==
    {i \in DOMAIN name :
       /\ name[i] = "_"
       /\ i + 8 <= Len(name)
       /\ \A j \in 1..8 : name[i + j] \in {"0", "1", "2", "3", "4", "5", "6", "7", "8", "9"}}

TimestampCharts == {"show_gap_evolution_chart", "show_cumulative_time_chart", "show_race_stats"}

\* Without a start date the Overview page has called no chart that needs
\* absolute timestamps.
NoDateNoTimestampChart ==
    (page = "Overview" /\ app_start_date = <<>>) =>
       \A k \in DOMAIN invoked : invoked[k] \notin TimestampCharts

\* C10 as stated: a date is returned exactly when some underscore of the
\* file name is followed by 8 digits that are a calendar date; and without a
\* date the Overview page calls no chart that needs absolute timestamps.
C10_DateIffSomeValidToken ==
    /\ app_pc \in {"pages", "done"} /\ page # "Practice / Test analysis" =>
         ((app_start_date # <<>>) <=>
             \E i \in TokenPositions(race_file) : IsCalendarDate(race_file, i))
    /\ NoDateNoTimestampChart

\* C10 amended: a date is returned exactly when the first underscore of the
\* file name that is followed by 8 digits is followed by a calendar date;
\* and without a date the Overview page calls no chart that needs absolute
\* timestamps.
C10_DateIffFirstTokenValid ==
    /\ app_pc \in {"pages", "done"} /\ page # "Practice / Test analysis" =>
         ((app_start_date # <<>>) <=>
             \E i \in TokenPositions(race_file) :
                /\ \A j \in TokenPositions(race_file) : i <= j
                /\ IsCalendarDate(race_file, i))
    /\ NoDateNoTimestampChart

\* C10 witness: the Overview page stopped without a date and without a call,
\* on a file name whose first 8-digit token is no date and whose second is.
C10_Witness ==
    /\ app_pc = "done" /\ page = "Overview"
    /\ app_start_date = <<>> /\ stopped /\ invoked = <<>>
    /\ \E i, j \in TokenPositions(race_file) :
         /\ i < j
         /\ ~IsCalendarDate(race_file, i)
         /\ IsCalendarDate(race_file, j)

\* ---- Claims on time_to_seconds ----
\* The value of a bare numeral (digits with at most one '.'), in
\* thousandths, or None for a text that is no numeral.
StatedNumeral(x) ==
    IF x # NotAString /\ FloatOk(x) THEN FloatMilli(x) ELSE None

\* C13: time_to_seconds has returned (it raises for no input) h*3600+m*60+s
\* for an h:m:s text, m*60+s for an m:s text, the numeral's value for a bare
\* numeral, and null for every other input.
C13_TimeToSecondsShapes ==
    time_pc = "done" =>
      time_sec = (IF StatedLapSeconds(time_str) # None THEN StatedLapSeconds(time_str)
                  ELSE StatedNumeral(time_str))

\* C13 witness: "1:2:1" was converted to 3721 seconds.
C13_Witness ==
    /\ time_pc = "done"
    /\ time_str = <<"1", ":", "2", ":", "1">>
    /\ time_sec = 3721 * 1000

\* ---- Claims on the monotonicity of the percentile average ----
\* The mean a = <<sum, count>> is at most the mean b.
MeanLe(a, b) == a[1] * b[2] <= b[1] * a[2]

\* C12: for the sorted laps of the driver asked for and the percentile P the
\* average was taken at, the average at every percentile P1 <= P of 1..100 is
\* at most the result, and the result is at most the average at every
\* percentile P2 >= P of 1..100.
C12_PercentileMonotone ==
    (pace_pc = "done" /\ avg_time # <<>>) =>
      /\ \A P1 \in 1..percentile :
           MeanLe(compute_driver_percentile_average(driver_laps, P1), avg_time)
      /\ \A P2 \in percentile..100 :
           MeanLe(avg_time, compute_driver_percentile_average(driver_laps, P2))

\* C12 witness: a driver with laps of different times, whose average at
\* P = 20 is strictly below the average at P = 100.
C12_Witness ==
    /\ pace_pc = "done"
    /\ percentile = 20
    /\ Len(driver_laps) = MaxMonotoneRows
    /\ driver_laps[1].LAP_TIME_SECONDS < driver_laps[Len(driver_laps)].LAP_TIME_SECONDS
    /\ ~MeanLe(compute_driver_percentile_average(driver_laps, 100), avg_time)

\* ---- Claims on the order of the timestamps ----
\* Row labels of car c, in the order of the table.
LabelsOfCar(c) == SelectSeq([i \in DOMAIN roll_df |-> i], LAMBDA i : roll_df[i].NUMBER = c)

\* The table with the rows of car c alone.
TableOfCar(c) == [k \in DOMAIN LabelsOfCar(c) |-> roll_df[LabelsOfCar(c)[k]]]

\* C14: once the scan is over, the non-null timestamps of each car are
\* non-decreasing in lap-number order, and every car's timestamps are those
\* the scan gives the car's rows when no other car is in the table.
C14_TimestampsMonotonePerCar ==
    roll_pc = "done" =>
      /\ \A a, b \in DOMAIN roll_df :
           (/\ roll_df[a].NUMBER = roll_df[b].NUMBER
            /\ roll_df[a].LAP_NUMBER < roll_df[b].LAP_NUMBER
            /\ hour_dt[a] # NaT /\ hour_dt[b] # NaT)
              => hour_dt[a] <= hour_dt[b]
      /\ \A c \in RollCars : \A k \in DOMAIN LabelsOfCar(c) :
           hour_dt[LabelsOfCar(c)[k]] = parse_hour_with_date_and_rollover(TableOfCar(c))[k]

\* C14 witness: the first car crossed midnight between two of its laps and
\* the second car, scanned after it, has a timestamp on the start date.
C14_Witness ==
    /\ roll_pc = "done"
    /\ \E a, b, c \in DOMAIN roll_df :
         /\ roll_df[a].NUMBER = 1 /\ roll_df[b].NUMBER = 1 /\ roll_df[c].NUMBER = 2
         /\ roll_df[a].LAP_NUMBER < roll_df[b].LAP_NUMBER
         /\ hour_dt[a] # NaT /\ DayOf(hour_dt[a]) = race_start_date
         /\ hour_dt[b] # NaT /\ DayOf(hour_dt[b]) = race_start_date + 1
         /\ hour_dt[c] # NaT /\ DayOf(hour_dt[c]) = race_start_date

\* ---- Claims on the position trajectories ----
\* The forward index the grid construction would build for a class: car ->
\* (lap -> rank), an entry for every cell the loop over the laps fills.
ForwardIndex(cls) ==
    LET cdf == class_df(pos_df, cls)
        order(lap) == Unique([i \in DOMAIN lap_df(cdf, lap) |-> lap_df(cdf, lap)[i].NUMBER])
    IN [car \in {cdf[i].NUMBER : i \in DOMAIN cdf} |->
          [lap \in {l \in 1..MaxLapOf(cdf) : car \in Range(order(l))} |->
             CHOOSE pos \in DOMAIN order(lap) : order(lap)[pos] = car]]

\* C15: every trace drawn over the lap range has one lap and one value per
\* lap of the range, in lap order; the value is the rank the forward index
\* holds for the car on that lap, and null when it holds none.
C15_TrajectoryIsForwardIndex ==
    pos_pc = "drawn" =>
      \A car \in DOMAIN fig_lap :
        LET start_lap == pos_lap_range[1]
            end_lap == pos_lap_range[2]
            index == ForwardIndex(selected_class)[car]
        IN /\ Len(fig_lap[car].x) = end_lap - start_lap + 1
           /\ Len(fig_lap[car].y) = end_lap - start_lap + 1
           /\ \A k \in 1..(end_lap - start_lap + 1) :
                /\ fig_lap[car].x[k] = start_lap + k - 1
                /\ fig_lap[car].y[k] = (IF start_lap + k - 1 \in DOMAIN index
                                        THEN index[start_lap + k - 1] ELSE None)

\* C15 witness: over a range that starts after lap 1, the trace of a car
\* holds rank 2 on one lap and null on another.
C15_Witness ==
    /\ pos_pc = "drawn"
    /\ pos_lap_range[1] > 1
    /\ \E car \in DOMAIN fig_lap : \E j, k \in DOMAIN fig_lap[car].y :
         fig_lap[car].y[j] = 2 /\ fig_lap[car].y[k] = None

\* ---- Claims on the two preprocess_lap_position_data ----
\* Classes of the table with a lap number of at least 1.
ClassesWithLaps ==
    {pos_df[i].CLASS : i \in {j \in DOMAIN pos_df : pos_df[j].LAP_NUMBER >= 1}}

\* Both results hold the same classes, those with a lap number of at least
\* 1, with the same grid and the same max_lap, and the function of
\* race_preprocessing.py returns empty colour maps.
SameGrids ==
    /\ DOMAIN preprocessed = ClassesWithLaps
    /\ DOMAIN preprocessed_other = ClassesWithLaps
    /\ \A cls \in ClassesWithLaps :
         /\ preprocessed_other[cls].position_df = preprocessed[cls].position_df
         /\ preprocessed_other[cls].max_lap = preprocessed[cls].max_lap
         /\ DOMAIN preprocessed_other[cls].car_colors = {}

\* C16 as stated: the two functions return the same classes, grids and
\* max_lap, and differ only in the colour map: empty, versus every car of
\* the class mapped to null.
C16_SameGridsEveryCarNull ==
    pos_pc = "compared" =>
      /\ SameGrids
      /\ \A cls \in ClassesWithLaps :
           /\ DOMAIN preprocessed[cls].car_colors =
                {pos_df[i].NUMBER : i \in {j \in DOMAIN pos_df : pos_df[j].CLASS = cls}}
           /\ \A car \in DOMAIN preprocessed[cls].car_colors :
                preprocessed[cls].car_colors[car] = NoColor

\* C16 amended: the two functions return the same classes, grids and
\* max_lap, and differ only in the colour map: empty, versus every car of
\* the class that has a TEAM value mapped to null.
C16_SameGridsTeamCarsNull ==
    pos_pc = "compared" =>
      /\ SameGrids
      /\ \A cls \in ClassesWithLaps :
           /\ DOMAIN preprocessed[cls].car_colors =
                {pos_df[i].NUMBER : i \in {j \in DOMAIN pos_df :
                     pos_df[j].CLASS = cls /\ pos_df[j].TEAM # NotAString}}
           /\ \A car \in DOMAIN preprocessed[cls].car_colors :
                preprocessed[cls].car_colors[car] = NoColor

\* C16 witness: both functions ran on a table with a class that is dropped
\* and a class that is kept, a car of which has no TEAM and no colour entry.
C16_Witness ==
    /\ pos_pc = "compared"
    /\ \E i \in DOMAIN pos_df : pos_df[i].CLASS \notin ClassesWithLaps
    /\ \E cls \in DOMAIN preprocessed :
         /\ cls \in DOMAIN preprocessed_other
         /\ preprocessed[cls].max_lap >= 2
         /\ \E i \in DOMAIN pos_df :
              /\ pos_df[i].CLASS = cls
              /\ pos_df[i].NUMBER \notin DOMAIN preprocessed[cls].car_colors

\* ---- Claims on the table passed to a transform ----
\* C11: after each call of a transform the table that was passed to it has
\* the columns, the rows and the values it had when the call was made.
C11_InputUnchanged ==
    frame_fn # "" => heap[frame_arg] = frame_before

\* C11 witness: show_gap_evolution_chart has returned, its working copy has
\* the HOUR_DT column with a timestamp in it, and the table passed in has no
\* such column.
C11_Witness ==
    /\ frame_fn = "show_gap_evolution_chart"
    /\ "HOUR_DT" \notin heap[frame_arg].cols
    /\ \E id \in DOMAIN heap :
         /\ "HOUR_DT" \in heap[id].cols
         /\ \E i \in DOMAIN heap[id].rows : heap[id].rows[i].HOUR_DT # NaT
    /\ heap[frame_arg] = frame_before

====
